---- MODULE Spec2Model ----
(***************************************************************************)
(* Analysis request/response flow of the frontend: the AnalyzePage submit  *)
(* handler (handleAnalyze), the Analyze button that guards it, the         *)
(* AnalysisProvider result store, the ResultContent result view, and the   *)
(* elapsed-time formatting done inside handleAnalyze.                      *)
(*                                                                         *)
(* JavaScript runs each handler up to its next `await` without             *)
(* interleaving, so every action below is one such run-to-await segment.   *)
(***************************************************************************)
EXTENDS Integers, Sequences, FiniteSets, TLC

VARIABLES
    route,          \* path the router currently shows
    isLoading,      \* useState(false) of the mounted AnalyzePage
    drugName,       \* useState("") of the mounted AnalyzePage
    result,         \* useState(null) of AnalysisProvider: the Result Store
    rendered,       \* what the mounted ResultContent last returned ("none": not rendered)
    calls,          \* the invocations of handleAnalyze still running, oldest first
    finished,       \* the invocation of handleAnalyze that returned in the latest step
    durationMs,     \* FormatSpec: the duration being formatted
    runtimeDisplay  \* FormatSpec: the formatted string ("" before formatting)

vars == <<route, isLoading, drugName, result, rendered, calls,
          finished, durationMs, runtimeDisplay>>

flowVars == <<route, isLoading, drugName, result, rendered, calls, finished>>

-----------------------------------------------------------------------------
(* Bounds of the model *)

\* Most invocations of handleAnalyze running at once, over all page instances.
MaxInFlight == 2
MaxDuration == 125000

(* Sample inputs *)

\* A compound name is a sequence of characters.
Names == { <<>>, <<" ">>, <<"J", "Q", "1">> }

\* Values of endTime - startTime, in whole milliseconds.
Durations == {1005, 60000}

Details == {"", "rate limited"}

AnalyzePath == "/analyze"
ResultPath == "/analyze/result"
Routes == {AnalyzePath, ResultPath}

-----------------------------------------------------------------------------
(* Values *)

\* JavaScript null in the Result Store.
Null == [empty |-> TRUE]

\* Parsed JSON bodies of an error response.
JsonNull == [type |-> "null", hasDetail |-> FALSE, detail |-> ""]
JsonNoDetail == [type |-> "object", hasDetail |-> FALSE, detail |-> ""]
JsonDetail(s) == [type |-> "object", hasDetail |-> TRUE, detail |-> s]

\* Bodies of a non-ok response: unparseable, or parsing to a JSON value.
ErrorBodies ==
    {[parses |-> FALSE, json |-> JsonNull]}
        \cup {[parses |-> TRUE, json |-> j] :
                j \in {JsonNoDetail} \cup {JsonDetail(s) : s \in Details}}

\* Parsed JSON bodies of an ok response that are objects, with the fields read.
SuccessData ==
    { [type |-> "object", conclusion |-> "reduces fibrosis", rationale |-> "BET inhibitor",
       confidence |-> 80, relevance |-> 100, tool_trace |-> <<"pubmed", "chembl">>],
      [type |-> "object", conclusion |-> "no effect", rationale |-> "no evidence",
       confidence |-> 0, relevance |-> 50, tool_trace |-> <<>>] }

NetworkErrorMessage == "Failed to fetch"
SyntaxErrorMessage == "Unexpected token < in JSON at position 0"
TypeErrorMessage == "Cannot read properties of null (reading 'conclusion')"
FallbackMessage == "Failed to analyze compound"

-----------------------------------------------------------------------------
(* Elapsed-time formatting (handleAnalyze, runtimeDisplay) *)

MsPerSecond == 1000
MsPerMinute == 60000

RECURSIVE PowMod(_, _, _)
PowMod(b, e, m) == IF e = 0 THEN 1 % m ELSE (b * PowMod(b, e - 1, m)) % m

\* Binary exponent of num/den for num/den >= 1/2: the k with 2^k <= num/den < 2^(k+1).
RECURSIVE Exponent(_, _)
Exponent(num, den) ==
    IF num < den THEN -1
    ELSE IF num < 2 * den THEN 0
    ELSE 1 + Exponent(num, 2 * den)

\* Sign of (the binary64 quotient num / den) - (the exact quotient): with 52
\* significand bits below the leading one, the division rounds num * 2^e / den,
\* e = 52 - exponent, to the nearest integer, ties to even.
DoubleError(num, den) ==
    LET e == 52 - Exponent(num, den)
        r == ((num % (2 * den)) * PowMod(2, e, 2 * den)) % (2 * den)
        rem == r % den
    IN  IF rem = 0 THEN 0
        ELSE IF 2 * rem < den THEN -1
        ELSE IF 2 * rem > den THEN 1
        ELSE IF r < den THEN -1 ELSE 1

\* (num / den).toFixed(digits), as the integer n of units 1/scale, scale = 10^digits:
\* the n for which n / scale is closest to the binary64 quotient, the larger on a tie.
ToFixedUnits(num, den, scale) ==
    LET q == (num * scale) \div den
        twice == 2 * ((num * scale) % den)
    IN  IF twice < den THEN q
        ELSE IF twice > den THEN q + 1
        ELSE IF DoubleError(num, den) < 0 THEN q ELSE q + 1

TwoDigits(n) == IF n < 10 THEN "0" \o ToString(n) ELSE ToString(n)

\* The digits toFixed(2) prints for n hundredths.
FixedTwo(n) == ToString(n \div 100) \o "." \o TwoDigits(n % 100)

formatRuntimeTruncating(runtimeMs) ==
    IF runtimeMs < MsPerSecond
    THEN ToString(runtimeMs) \o "ms"
    ELSE IF runtimeMs < MsPerMinute
    THEN FixedTwo(runtimeMs \div 10) \o "s"
    ELSE ToString(runtimeMs \div MsPerMinute) \o "m "
            \o ToString((runtimeMs % MsPerMinute) \div MsPerSecond) \o "s"

formatRuntime(runtimeMs) ==
    IF runtimeMs < MsPerSecond
    THEN ToString(ToFixedUnits(runtimeMs, 1, 1)) \o "ms"
    ELSE IF runtimeMs < MsPerMinute
    THEN FixedTwo(ToFixedUnits(runtimeMs, MsPerSecond, 100)) \o "s"
    ELSE ToString(runtimeMs \div MsPerMinute) \o "m "
            \o ToString(ToFixedUnits(runtimeMs % MsPerMinute, MsPerSecond, 1)) \o "s"

-----------------------------------------------------------------------------
(* AnalyzePage: state, button, input *)

\* JavaScript `!drugName`: only the empty string is falsy.
Falsy(name) == name = <<>>

CallIds == 1..Len(calls)

\* The running calls without call c (0: without none).
Without(c) ==
    [i \in 1..(IF c = 0 THEN Len(calls) ELSE Len(calls) - 1) |->
        IF c = 0 \/ i < c THEN calls[i] ELSE calls[i + 1]]

ButtonDisabledIgnoringLoading == Falsy(drugName)

\* disabled={isLoading || !drugName}
ButtonDisabled == isLoading \/ Falsy(drugName)

\* The value a state setter of the component that made call c leaves in isLoading:
\* a setter of an unmounted component changes nothing.
SetIsLoading(c, value) == IF calls[c].mounted THEN value ELSE isLoading

NoBody == [parses |-> FALSE, json |-> JsonNull]

\* The value of `finished` after a step in which no call returned.
NoCall ==
    [sent |-> <<>>, mounted |-> FALSE, input |-> <<>>,
     response |-> "none", errorBody |-> NoBody, message |-> "", written |-> Null,
     promise |-> "pending", trace |-> <<>>]

\* The running calls without call c, once the AnalyzePage shown is unmounted.
Unmounted(c) ==
    [i \in DOMAIN Without(c) |-> [Without(c)[i] EXCEPT !.mounted = FALSE]]

\* The router shows `path`: the page of the old path unmounts and its state is
\* dropped, the page of the new path mounts with its initial state.
Show(path) ==
    /\ route' = path
    /\ drugName' = IF path = route THEN drugName ELSE <<>>
    /\ rendered' = IF path = route THEN rendered ELSE "none"

\* The user follows a link (Navbar, back button) to the other page.
Navigate(path) ==
    /\ path # route
    /\ Show(path)
    /\ isLoading' = FALSE
    /\ calls' = Unmounted(0)
    /\ finished' = NoCall
    /\ UNCHANGED <<result, durationMs, runtimeDisplay>>

\* Input onChange: setDrugName(e.target.value).
SetDrugName(value) ==
    /\ route = AnalyzePath
    /\ value # drugName
    /\ drugName' = value
    /\ finished' = NoCall
    /\ UNCHANGED <<route, isLoading, result, rendered, calls,
                   durationMs, runtimeDisplay>>

-----------------------------------------------------------------------------
(* handleAnalyze *)

\* onClick of the Analyze button; handleAnalyze up to `await fetch(...)`.
ClickAnalyze ==
    /\ route = AnalyzePath
    /\ ~ButtonDisabled
    /\ Len(calls) < MaxInFlight
    /\ isLoading' = TRUE
    /\ calls' = Append(calls,
            [pc |-> "fetch", mounted |-> TRUE, drugName |-> drugName,
             sent |-> drugName, response |-> "none",
             trace |-> <<"setIsLoading(true)", "fetch">>])
    /\ finished' = NoCall
    /\ UNCHANGED <<route, drugName, result, rendered, durationMs, runtimeDisplay>>

\* The record `finished` keeps of a call returning: `call` is the call on entering
\* its last block, `effects` the calls that block makes, in program order;
\* `mounted`: the page that made the call is still the one shown; `input`: what
\* the compound-name input holds at that moment.
Returned(call, effects, errorBody, message, written, promise) ==
    [sent |-> call.sent, mounted |-> call.mounted, input |-> drugName,
     response |-> call.response,
     errorBody |-> errorBody, message |-> message, written |-> written,
     promise |-> promise, trace |-> call.trace \o effects]

\* catch and finally, with a catch that also resets the store.
CatchFinallyClearing(c, call, errorBody, message) ==
    /\ finished' = Returned(call, <<"toast.error", "setIsLoading(false)">>,
                            errorBody, message, Null, "fulfilled")
    /\ calls' = Without(c)
    /\ isLoading' = SetIsLoading(c, FALSE)
    /\ result' = Null
    /\ UNCHANGED <<route, drugName, rendered, durationMs, runtimeDisplay>>

\* catch without the finally block.
CatchWithoutFinally(c, call, errorBody, message) ==
    /\ finished' = Returned(call, <<"toast.error">>, errorBody, message, Null, "fulfilled")
    /\ calls' = Without(c)
    /\ UNCHANGED <<route, isLoading, drugName, result, rendered,
                   durationMs, runtimeDisplay>>

\* catch (error) { toast.error(error.message) } finally { setIsLoading(false) }:
\* the handler's promise fulfils.
CatchFinally(c, call, errorBody, message) ==
    /\ finished' = Returned(call, <<"toast.error", "setIsLoading(false)">>,
                            errorBody, message, Null, "fulfilled")
    /\ calls' = Without(c)
    /\ isLoading' = SetIsLoading(c, FALSE)
    /\ UNCHANGED <<route, drugName, result, rendered,
                   durationMs, runtimeDisplay>>

\* fetch rejects (network fault): control goes to the catch block.
FetchRejects(c) ==
    /\ c \in CallIds
    /\ calls[c].pc = "fetch"
    /\ CatchFinally(c, [calls[c] EXCEPT !.response = "fault"], NoBody,
                    NetworkErrorMessage)

\* fetch resolves with a response; handleAnalyze runs to its next await:
\* response.json().catch(...) when !response.ok, response.json() otherwise.
FetchResolves(c, ok) ==
    /\ c \in CallIds
    /\ calls[c].pc = "fetch"
    /\ calls' = [calls EXCEPT ![c].response = IF ok THEN "ok" ELSE "notOk",
                              ![c].pc = IF ok THEN "json" ELSE "errorJson",
                              ![c].trace = @ \o <<"response", "response.json">>]
    /\ finished' = NoCall
    /\ UNCHANGED <<route, isLoading, drugName, result, rendered,
                   durationMs, runtimeDisplay>>

ErrorMessageKeepingEmpty(errorData) ==
    IF errorData.type = "object" /\ errorData.hasDetail
    THEN errorData.detail
    ELSE FallbackMessage

\* errorData?.detail || "Failed to analyze compound"
ErrorMessage(errorData) ==
    IF errorData.type = "object" /\ errorData.hasDetail /\ errorData.detail # ""
    THEN errorData.detail
    ELSE FallbackMessage

\* const errorData = await response.json().catch(() => null); throw new Error(...)
ErrorJsonSettles(c, body) ==
    /\ c \in CallIds
    /\ calls[c].pc = "errorJson"
    /\ LET errorData == IF body.parses THEN body.json ELSE JsonNull
       IN  CatchFinally(c, calls[c], body, ErrorMessage(errorData))

\* await response.json() rejects on an ok response (malformed body).
JsonRejects(c) ==
    /\ c \in CallIds
    /\ calls[c].pc = "json"
    /\ CatchFinally(c, [calls[c] EXCEPT !.response = "malformed"], NoBody,
                    SyntaxErrorMessage)

AnalysisResultFromInput(call, data, runtime) ==
    [compound |-> drugName, conclusion |-> data.conclusion,
     rationale |-> data.rationale, runtime |-> runtime,
     confidence |-> data.confidence, relevance |-> data.relevance,
     toolTrace |-> data.tool_trace]

\* The object handed to setResult; drugName is the closure's.
AnalysisResult(call, data, runtime) ==
    [compound |-> call.drugName, conclusion |-> data.conclusion,
     rationale |-> data.rationale, runtime |-> runtime,
     confidence |-> data.confidence, relevance |-> data.relevance,
     toolTrace |-> data.tool_trace]

\* router.push before setResult.
EffectsPushFirst == <<"parsed", "router.push", "setResult", "setIsLoading(false)">>

\* The success path from the resolution of response.json(), in program order.
SuccessEffects == <<"parsed", "setResult", "router.push", "setIsLoading(false)">>

\* await response.json() resolves to an object: runtimeDisplay, setResult,
\* router.push("/analyze/result"), finally setIsLoading(false).
JsonResolves(c, data, runtimeMs) ==
    /\ c \in CallIds
    /\ calls[c].pc = "json"
    /\ LET value == AnalysisResult(calls[c], data, formatRuntime(runtimeMs))
       IN  /\ result' = value
           /\ finished' = Returned(calls[c], SuccessEffects, NoBody, "", value,
                                   "fulfilled")
    /\ calls' = IF route = ResultPath THEN Without(c) ELSE Unmounted(c)
    /\ Show(ResultPath)
    /\ isLoading' = FALSE
    /\ UNCHANGED <<durationMs, runtimeDisplay>>

\* await response.json() resolves to null: data.conclusion throws a TypeError.
JsonResolvesNull(c) ==
    /\ c \in CallIds
    /\ calls[c].pc = "json"
    /\ CatchFinally(c, [calls[c] EXCEPT !.response = "null"], NoBody, TypeErrorMessage)

-----------------------------------------------------------------------------
(* ResultContent *)

\* A render that skips the `if (!result)` guard.
RenderUnguarded ==
    /\ route = ResultPath
    /\ rendered' = "fields"
    /\ finished' = NoCall
    /\ UNCHANGED <<route, isLoading, drugName, result, calls,
                   durationMs, runtimeDisplay>>

\* A render of ResultContent: router.push("/analyze") and null on an empty store,
\* the result's fields otherwise.
RenderResult ==
    /\ route = ResultPath
    /\ IF result = Null
       THEN /\ rendered' = "null"
            /\ route' = AnalyzePath
            /\ drugName' = <<>>
            /\ isLoading' = FALSE
       ELSE /\ rendered' = "fields"
            /\ UNCHANGED <<route, drugName, isLoading>>
    /\ finished' = NoCall
    /\ UNCHANGED <<result, calls, durationMs, runtimeDisplay>>

-----------------------------------------------------------------------------
(* Specifications *)

Init ==
    /\ route = AnalyzePath
    /\ isLoading = FALSE
    /\ drugName = <<>>
    /\ result = Null
    /\ rendered = "none"
    /\ calls = <<>>
    /\ finished = NoCall
    /\ durationMs = 0
    /\ runtimeDisplay = ""

\* The pending await of call c settles.
Settle(c) ==
    \/ FetchRejects(c)
    \/ \E ok \in BOOLEAN : FetchResolves(c, ok)
    \/ \E body \in ErrorBodies : ErrorJsonSettles(c, body)
    \/ JsonRejects(c)
    \/ \E data \in SuccessData, runtimeMs \in Durations : JsonResolves(c, data, runtimeMs)
    \/ JsonResolvesNull(c)

Next ==
    \/ \E path \in Routes : Navigate(path)
    \/ \E value \in Names : SetDrugName(value)
    \/ ClickAnalyze
    \/ \E c \in CallIds : FetchRejects(c)
    \/ \E c \in CallIds, ok \in BOOLEAN : FetchResolves(c, ok)
    \/ \E c \in CallIds, body \in ErrorBodies : ErrorJsonSettles(c, body)
    \/ \E c \in CallIds : JsonRejects(c)
    \/ \E c \in CallIds, data \in SuccessData, runtimeMs \in Durations :
            JsonResolves(c, data, runtimeMs)
    \/ \E c \in CallIds : JsonResolvesNull(c)
    \/ RenderResult

Spec == Init /\ [][Next]_vars

\* While awaits are pending one of them eventually settles: the backend responds
\* or the transport fails, and a body being read is read or found malformed.
FairSpec == Spec /\ WF_vars(\E c \in CallIds : Settle(c))

\* The formatter applied to every duration up to MaxDuration.
InitFormat ==
    /\ route = AnalyzePath
    /\ isLoading = FALSE
    /\ drugName = <<>>
    /\ result = Null
    /\ rendered = "none"
    /\ calls = <<>>
    /\ finished = NoCall
    /\ durationMs \in 0..MaxDuration
    /\ runtimeDisplay = ""

Format ==
    /\ runtimeDisplay = ""
    /\ runtimeDisplay' = formatRuntime(durationMs)
    /\ UNCHANGED <<flowVars, durationMs>>

NextFormat == Format

FormatSpec == InitFormat /\ [][NextFormat]_vars

-----------------------------------------------------------------------------
(* Properties *)

Whitespace == {" ", "\t", "\n"}

\* A name that is empty or consists only of whitespace.
IsBlank(name) == \A i \in 1..Len(name) : name[i] \in Whitespace

\* A call returns in this step; `finished` then describes it.
Returns == Len(calls') < Len(calls)

\* Position of the first occurrence of effect e in trace t (0: none).
Pos(t, e) == IF \E i \in 1..Len(t) : t[i] = e
             THEN CHOOSE i \in 1..Len(t) : t[i] = e /\ \A j \in 1..(i - 1) : t[j] # e
             ELSE 0

Count(t, e) == Cardinality({i \in 1..Len(t) : t[i] = e})

\* The returned call failed: network fault, non-ok status, or an ok response
\* whose body is malformed or null.
Failed(f) == f.response \in {"fault", "notOk", "malformed", "null"}

MountedInFlight == {c \in CallIds : calls[c].mounted}

\* C1: for a blank compound name (empty or only whitespace) a submit issues no
\* network call and leaves the busy flag false: no request in flight carries a
\* blank drug_name, and busy is only ever set for a non-blank one.
C1_BlankNeverSubmitted ==
    /\ \A c \in CallIds : ~IsBlank(calls[c].sent)
    /\ isLoading => \E c \in MountedInFlight : ~IsBlank(calls[c].sent)

\* C2: a page instance has at most one request in flight (an instance that is
\* no longer shown can start none), and while it has one a further submit is
\* rejected: the click handler is not enabled.
C2_OneInFlightPerInstance ==
    /\ Cardinality(MountedInFlight) <= 1
    /\ MountedInFlight # {} => ~ENABLED ClickAnalyze

\* C2 witness: a request of the shown page in flight beside one of an earlier
\* instance, with a submittable name in the input.
C2_Witness ==
    /\ Cardinality(MountedInFlight) = 1
    /\ \E c \in CallIds : ~calls[c].mounted
    /\ ~Falsy(drugName)

\* C3: a failing attempt leaves the Result Store as it was, issues no
\* navigation, and raises exactly one error notification.
C3_FailureLeavesStore ==
    [][(Returns /\ Failed(finished')) =>
            /\ result' = result
            /\ route' = route
            /\ Count(finished'.trace, "toast.error") = 1
            /\ Count(finished'.trace, "setResult") = 0
            /\ Count(finished'.trace, "router.push") = 0]_vars

\* C3 witness: a failure after an earlier success, the store still populated and
\* the submit view still shown.
C3_Witness ==
    /\ Failed(finished)
    /\ result # Null
    /\ route = AnalyzePath

\* C4: the store is written only by a submit whose fetch resolved ok and whose
\* body parsed, after both; that submit's navigation to the result view comes
\* after its write; a submit that writes nothing navigates nowhere.
C4_WriteThenNavigate ==
    [][/\ Returns =>
            LET t == finished'.trace
            IN  /\ Count(t, "setResult") > 0 =>
                    /\ finished'.response = "ok"
                    /\ Pos(t, "fetch") < Pos(t, "response")
                    /\ Pos(t, "response") < Pos(t, "parsed")
                    /\ Pos(t, "parsed") < Pos(t, "setResult")
                    /\ result' = finished'.written
                /\ Count(t, "router.push") > 0 =>
                    /\ Count(t, "setResult") > 0
                    /\ Pos(t, "setResult") < Pos(t, "router.push")
                    /\ route' = ResultPath
       /\ result' # result => (Returns /\ Count(finished'.trace, "setResult") = 1)]_vars

\* C4 witness: a submit has written the store and navigated to the result view.
C4_Witness ==
    /\ Count(finished.trace, "router.push") = 1
    /\ finished.written # Null
    /\ result = finished.written
    /\ route = ResultPath

\* C5: a render of the result view on an empty store returns null and navigates
\* to the submit view, and the result's fields are on screen only while the
\* store holds a value.
C5_EmptyStoreRedirects ==
    /\ [](rendered = "fields" => result # Null)
    /\ [][(route = ResultPath /\ result = Null /\ rendered' # rendered) =>
            (rendered' = "null" /\ route' = AnalyzePath)]_vars

\* C5 witness: the result view was rendered on an empty store and the submit
\* view is shown.
C5_Witness ==
    /\ rendered = "null"
    /\ result = Null
    /\ route = AnalyzePath

\* C6: busy is true only while a request of the shown page is in flight; a call
\* that returns ends with setIsLoading(false), which clears the busy flag of its
\* page; and, the backend responding or the transport failing eventually, busy
\* becomes false.
C6_BusyCleared ==
    /\ [](isLoading => MountedInFlight # {})
    /\ [][Returns =>
            /\ finished'.trace[Len(finished'.trace)] = "setIsLoading(false)"
            /\ finished'.mounted => ~isLoading']_vars
    /\ isLoading ~> ~isLoading

\* C6 witness: a call of the shown page has failed, busy is clear again and the
\* submit view is still shown.
C6_Witness ==
    /\ Failed(finished)
    /\ finished.mounted
    /\ ~isLoading
    /\ route = AnalyzePath

\* What C7 says a non-ok response is reported as: its `detail` when the body
\* parses and has one, the fallback otherwise.
DetailOrFallback(body) ==
    IF body.parses /\ body.json.type = "object" /\ body.json.hasDetail
    THEN body.json.detail
    ELSE FallbackMessage

\* C7 as stated: a non-ok response is reported with its `detail` string
\* whenever it has one, with the fallback otherwise, and no failure escapes the
\* handler.
C7_DetailAlwaysReported ==
    /\ finished.response = "notOk" => finished.message = DetailOrFallback(finished.errorBody)
    /\ Failed(finished) => finished.promise = "fulfilled"

\* C7 as amended: a non-ok response is reported with its `detail` string when
\* that string is not empty, and with the fallback when the body does not
\* parse, has no `detail`, or has an empty one; no failure escapes the handler.
C7_NonEmptyDetailReported ==
    /\ finished.response = "notOk" =>
        finished.message =
            IF DetailOrFallback(finished.errorBody) = ""
            THEN FallbackMessage
            ELSE DetailOrFallback(finished.errorBody)
    /\ Failed(finished) => finished.promise = "fulfilled"

\* C7 witness: a non-ok response with {"detail": "rate limited"} was reported
\* with that string.
C7_Witness ==
    /\ finished.response = "notOk"
    /\ finished.errorBody = [parses |-> TRUE, json |-> JsonDetail("rate limited")]
    /\ finished.message = "rate limited"

\* C8: the store starts empty, is never emptied again, changes only by a
\* successful submit's write, and then holds exactly the value written.
C8_StoreKeepsLastWrite ==
    /\ result = Null
    /\ [][/\ result # Null => result' # Null
          /\ IF Returns /\ finished'.written # Null
             THEN result' = finished'.written
             ELSE result' = result]_vars

\* C8 witness: a failure and a visit of the result view after a success, the
\* store still holding the value of that success.
C8_Witness ==
    /\ Failed(finished)
    /\ rendered = "fields"
    /\ result # Null
    /\ result.compound = <<"J", "Q", "1">>
    /\ result.toolTrace = <<"pubmed", "chembl">>

\* The strings C9 allows for a duration d.
Expected(d) ==
    IF d < 1000
    THEN {ToString(d) \o "ms"}
    ELSE IF d < 60000
    THEN {FixedTwo(n) \o "s" :
            n \in {m \in {d \div 10, d \div 10 + 1} : 10 * m - d <= 5 /\ d - 10 * m <= 5}}
    ELSE LET r == d % 60000
         IN  {ToString(d \div 60000) \o "m " \o ToString(n) \o "s" :
                n \in {m \in {r \div 1000, r \div 1000 + 1} :
                        2 * (1000 * m - r) <= 1000 /\ 2 * (r - 1000 * m) <= 1000}}

C10_CompoundIsSentName ==
    finished.written # Null => finished.written.compound = finished.sent

\* C10 witness: a submit succeeded after the input of its page was changed
\* while its request was in flight.
C10_Witness ==
    /\ finished.written # Null
    /\ finished.mounted
    /\ finished.input # finished.sent
    /\ finished.written.compound = finished.sent

=============================================================================
